---- MODULE Spec2Model ----
(***************************************************************************)
(* Model of the transaction risk evaluator of cw_case (src/app.py):        *)
(* is_valid_transaction, its profile fetch through                         *)
(* PostgresConnectionManager.query_to_dataframe, the per-field default     *)
(* substitution safe_get_scalar and the ordered rule chain.                *)
(*                                                                         *)
(* Representation of Python values.  A Python scalar is a record           *)
(* [k, v]: k = "num" (int/float/Decimal, v its value), k = "none" (None),  *)
(* k = "str" (a str).  Ratios (the two *_percent fields and the literal    *)
(* 0.5) are held in tenths, so 0.5 is 5 and 0.1 is 1; every other number   *)
(* is held as itself.  The chain only doubles and compares, which is exact *)
(* on floats, so the fixed-point representation loses nothing.             *)
(***************************************************************************)
EXTENDS Integers, Sequences, FiniteSets, TLC

VARIABLES
    pc,                 \* position of the evaluation in is_valid_transaction
    payload,            \* the argument of is_valid_transaction
    transaction_amount, \* local of line 21
    user_id,            \* local of line 23
    conn,               \* local of line 27: "none", or "open" once connected
    sql_query,          \* local of lines 30-31: the text handed to the database
    user_profile,       \* local of line 32: the fetched DataFrame
    fetched,            \* TRUE once query_to_dataframe returned a frame
    feat,               \* the six locals of lines 41-46
    result,             \* the pair returned to the caller
    outcome,            \* "none" | "returned" | "raised"
    open_conns,         \* connections open on the database server
    other,              \* the locals of a second evaluation, while it is not running
    epc,                \* position of evaluate_transaction
    request,            \* the HTTP request evaluate_transaction handles
    response,           \* the HTTP response evaluate_transaction produced
    runner              \* the locals of run_feature_store.main

\* The locals of one call of is_valid_transaction.
locals == <<pc, payload, transaction_amount, user_id, conn, sql_query,
            user_profile, fetched, feat, result, outcome>>

\* The state of evaluate_transaction.
endpoint == <<epc, request, response>>

vars == <<locals, open_conns, other, endpoint, runner>>

-----------------------------------------------------------------------------
(* Bounds *)

\* The largest user_cbk_count_lifetime_percent a fetched row carries, in tenths.
MaxUserCbk == 1

\* The connections the database server accepts at once, when evaluations
\* run one after the other.
MaxConns == 1

-----------------------------------------------------------------------------
(* Python values *)

Num(n) == [k |-> "num", v |-> n]
PyNone == [k |-> "none", v |-> 0]
PyStr == [k |-> "str", v |-> 0]

IsNum(x) == x.k = "num"

Fields == {"distinct_cards_2_weeks", "txns_by_user_last_1h_hour",
           "num_cbk_card_bin_7d_percent", "avg_txns_by_user_1h",
           "avg_transaction_amount_7d", "user_cbk_count_lifetime_percent"}


\* A cell of a fetched row: a number, or None for an SQL NULL.
Cells == [k : {"num", "none"}, v : Int]

-----------------------------------------------------------------------------
(* Program constants *)

DefaultDistinctCards == 1
DefaultTxnsLast1h == 20
DefaultCbkCardBin == 0
DefaultAvgTxns1h == 20
DefaultAvgAmount7d == 10000
DefaultUserCbk == 0
\* The literal 0.5 of rule 5, in tenths.
HalfRatio == 5
\* The literal 3 of rule 4.
CardsLimit == 3

Approved == "Transaction approved"
DeniedCbkHistory == "Transaction denied due to high chargeback history"
DeniedVolume == "Transaction denied due to high transaction volume"
DeniedValue == "Transaction denied due to high transaction value"
DeniedCards == "Transaction denied due to multiple cards used recently"
DeniedCardBin == "Transaction denied due to high chargeback rate for card type"
ProcessingError == "Processing error: "

\* A reason is <<fixed text, str(e)>>; str(e) is "" for the six fixed strings.
Reason(text) == <<text, "">>
ProcessingErrorReason(e) == <<ProcessingError, e>>

NoResult == [verdict |-> FALSE, reason |-> <<"", "">>]

-----------------------------------------------------------------------------
(* The fetched DataFrame: for each field, whether the frame has the column *)
(* and the column's cells (one per row).                                   *)

NoColumn == [present |-> FALSE, cells |-> <<>>]
Column(cell) == [present |-> TRUE, cells |-> <<cell>>]

\* pd.DataFrame([]) : no rows, no columns.
EmptyFrame == [f \in Fields |-> NoColumn]

\* DataFrame.get(col): the Series of that column, or None.
DataFrameGet(df, col) ==
    IF df[col].present
    THEN [isNone |-> FALSE, cells |-> df[col].cells]
    ELSE [isNone |-> TRUE, cells |-> <<>>]

\* A variant that forgets the None check on the first cell.
safe_get_scalar_nonull(series, default) ==
    IF series.isNone \/ Len(series.cells) = 0
    THEN default
    ELSE series.cells[1]

\* A variant that ignores the default it is given (the parameter's default=0).
safe_get_scalar_zero(series, default) ==
    IF series.isNone \/ Len(series.cells) = 0
    THEN Num(0)
    ELSE IF series.cells[1] # PyNone THEN series.cells[1] ELSE Num(0)

\* safe_get_scalar: a Series always has iloc, so the final `return series`
\* is reached by no value DataFrame.get produces.
safe_get_scalar(series, default) ==
    IF series.isNone \/ Len(series.cells) = 0
    THEN default
    ELSE IF series.cells[1] # PyNone THEN series.cells[1] ELSE default

FieldDefault(f) ==
    CASE f = "distinct_cards_2_weeks" -> Num(DefaultDistinctCards)
      [] f = "txns_by_user_last_1h_hour" -> Num(DefaultTxnsLast1h)
      [] f = "num_cbk_card_bin_7d_percent" -> Num(DefaultCbkCardBin)
      [] f = "avg_txns_by_user_1h" -> Num(DefaultAvgTxns1h)
      [] f = "avg_transaction_amount_7d" -> Num(DefaultAvgAmount7d)
      [] f = "user_cbk_count_lifetime_percent" -> Num(DefaultUserCbk)

\* Lines 41-46: the six locals.
Features(df) ==
    [f \in Fields |-> safe_get_scalar(DataFrameGet(df, f), FieldDefault(f))]

-----------------------------------------------------------------------------
(* Python comparison and arithmetic on the modelled values *)

\* a >= b and a > b are defined between numbers; with None or a str on one
\* side and a number on the other they raise TypeError.
Comparable(a, b) == IsNum(a) /\ IsNum(b)

\* 2 * x : a number doubles, None raises TypeError, a str repeats.
CanDouble(x) == x.k # "none"
Double(x) == IF IsNum(x) THEN Num(2 * x.v) ELSE x

Returned(v, text) == [raised |-> FALSE, exc |-> "", verdict |-> v, reason |-> Reason(text)]
Raised(e) == [raised |-> TRUE, exc |-> e, verdict |-> FALSE, reason |-> <<"", "">>]

\* A variant of the chain with rule 3 tested before rule 1.
RuleChain_value_first(amount, f) ==
    LET cbk == f["user_cbk_count_lifetime_percent"]
        avgamt == f["avg_transaction_amount_7d"]
    IN  IF ~CanDouble(avgamt) \/ ~Comparable(amount, Double(avgamt)) THEN Raised("TypeError")
        ELSE IF amount.v >= Double(avgamt).v THEN Returned(FALSE, DeniedValue)
        ELSE IF ~Comparable(cbk, Num(0)) THEN Raised("TypeError")
        ELSE IF cbk.v > 0 THEN Returned(FALSE, DeniedCbkHistory)
        ELSE Returned(TRUE, Approved)

\* A variant of the chain whose three inclusive comparisons are strict.
RuleChain_strict(amount, f) ==
    LET cards == f["distinct_cards_2_weeks"]
        txns == f["txns_by_user_last_1h_hour"]
        bin == f["num_cbk_card_bin_7d_percent"]
        avgtx == f["avg_txns_by_user_1h"]
        avgamt == f["avg_transaction_amount_7d"]
        cbk == f["user_cbk_count_lifetime_percent"]
    IN  IF ~Comparable(cbk, Num(0)) THEN Raised("TypeError")
        ELSE IF cbk.v > 0 THEN Returned(FALSE, DeniedCbkHistory)
        ELSE IF ~CanDouble(avgtx) \/ ~Comparable(txns, Double(avgtx)) THEN Raised("TypeError")
        ELSE IF txns.v > Double(avgtx).v THEN Returned(FALSE, DeniedVolume)
        ELSE IF ~CanDouble(avgamt) \/ ~Comparable(amount, Double(avgamt)) THEN Raised("TypeError")
        ELSE IF amount.v >= Double(avgamt).v THEN Returned(FALSE, DeniedValue)
        ELSE IF ~Comparable(cards, Num(CardsLimit)) THEN Raised("TypeError")
        ELSE IF cards.v > CardsLimit THEN Returned(FALSE, DeniedCards)
        ELSE IF ~Comparable(bin, Num(HalfRatio)) THEN Raised("TypeError")
        ELSE IF bin.v > HalfRatio THEN Returned(FALSE, DeniedCardBin)
        ELSE Returned(TRUE, Approved)

\* A variant of the chain whose rule 3 is strict and whose rule 1 is not.
RuleChain_swapped_strictness(amount, f) ==
    LET cards == f["distinct_cards_2_weeks"]
        txns == f["txns_by_user_last_1h_hour"]
        bin == f["num_cbk_card_bin_7d_percent"]
        avgtx == f["avg_txns_by_user_1h"]
        avgamt == f["avg_transaction_amount_7d"]
        cbk == f["user_cbk_count_lifetime_percent"]
    IN  IF ~Comparable(cbk, Num(0)) THEN Raised("TypeError")
        ELSE IF cbk.v >= 0 THEN Returned(FALSE, DeniedCbkHistory)
        ELSE IF ~CanDouble(avgtx) \/ ~Comparable(txns, Double(avgtx)) THEN Raised("TypeError")
        ELSE IF txns.v >= Double(avgtx).v THEN Returned(FALSE, DeniedVolume)
        ELSE IF ~CanDouble(avgamt) \/ ~Comparable(amount, Double(avgamt)) THEN Raised("TypeError")
        ELSE IF amount.v > Double(avgamt).v THEN Returned(FALSE, DeniedValue)
        ELSE IF ~Comparable(cards, Num(CardsLimit)) THEN Raised("TypeError")
        ELSE IF cards.v >= CardsLimit THEN Returned(FALSE, DeniedCards)
        ELSE IF ~Comparable(bin, Num(HalfRatio)) THEN Raised("TypeError")
        ELSE IF bin.v >= HalfRatio THEN Returned(FALSE, DeniedCardBin)
        ELSE Returned(TRUE, Approved)

\* A variant of the chain that has lost its last denial rule.
RuleChain_no_bin(amount, f) ==
    LET cards == f["distinct_cards_2_weeks"]
        txns == f["txns_by_user_last_1h_hour"]
        avgtx == f["avg_txns_by_user_1h"]
        avgamt == f["avg_transaction_amount_7d"]
        cbk == f["user_cbk_count_lifetime_percent"]
    IN  IF ~Comparable(cbk, Num(0)) THEN Raised("TypeError")
        ELSE IF cbk.v > 0 THEN Returned(FALSE, DeniedCbkHistory)
        ELSE IF ~CanDouble(avgtx) \/ ~Comparable(txns, Double(avgtx)) THEN Raised("TypeError")
        ELSE IF txns.v >= Double(avgtx).v THEN Returned(FALSE, DeniedVolume)
        ELSE IF ~CanDouble(avgamt) \/ ~Comparable(amount, Double(avgamt)) THEN Raised("TypeError")
        ELSE IF amount.v >= Double(avgamt).v THEN Returned(FALSE, DeniedValue)
        ELSE IF ~Comparable(cards, Num(CardsLimit)) THEN Raised("TypeError")
        ELSE IF cards.v >= CardsLimit THEN Returned(FALSE, DeniedCards)
        ELSE Returned(TRUE, Approved)

\* Lines 48-61: the if/elif chain.  Each condition is evaluated only when
\* every condition above it was false; a comparison that Python cannot make
\* raises TypeError from that line.
RuleChain(amount, f) ==
    LET cards == f["distinct_cards_2_weeks"]
        txns == f["txns_by_user_last_1h_hour"]
        bin == f["num_cbk_card_bin_7d_percent"]
        avgtx == f["avg_txns_by_user_1h"]
        avgamt == f["avg_transaction_amount_7d"]
        cbk == f["user_cbk_count_lifetime_percent"]
    IN  IF ~Comparable(cbk, Num(0)) THEN Raised("TypeError")
        ELSE IF cbk.v > 0 THEN Returned(FALSE, DeniedCbkHistory)
        ELSE IF ~CanDouble(avgtx) \/ ~Comparable(txns, Double(avgtx)) THEN Raised("TypeError")
        ELSE IF txns.v >= Double(avgtx).v THEN Returned(FALSE, DeniedVolume)
        ELSE IF ~CanDouble(avgamt) \/ ~Comparable(amount, Double(avgamt)) THEN Raised("TypeError")
        ELSE IF amount.v >= Double(avgamt).v THEN Returned(FALSE, DeniedValue)
        ELSE IF ~Comparable(cards, Num(CardsLimit)) THEN Raised("TypeError")
        ELSE IF cards.v >= CardsLimit THEN Returned(FALSE, DeniedCards)
        ELSE IF ~Comparable(bin, Num(HalfRatio)) THEN Raised("TypeError")
        ELSE IF bin.v >= HalfRatio THEN Returned(FALSE, DeniedCardBin)
        ELSE Returned(TRUE, Approved)

-----------------------------------------------------------------------------
(* Inputs *)

RequiredFields == {"transaction_id", "merchant_id", "user_id", "card_number",
                   "transaction_date", "transaction_amount", "device_id"}

Amounts == {Num(100), Num(19999), Num(20000), PyNone, PyStr}

DictPayload(keys, amount, uid) ==
    [kind |-> "dict", keys |-> keys, transaction_amount |-> amount, user_id |-> uid]

\* A payload that is not a dict (a JSON string, list or null): it has no get.
NonDictPayload ==
    [kind |-> "other", keys |-> {}, transaction_amount |-> PyNone, user_id |-> PyNone]

Payloads ==
    {DictPayload(RequiredFields, a, Num(7)) : a \in Amounts}
    \cup {DictPayload(RequiredFields \ {"transaction_amount"}, PyNone, Num(7))}
    \cup {NonDictPayload}

\* dict.get(key, default)
PayloadGet(p, key, default) ==
    IF key \in p.keys
    THEN (IF key = "transaction_amount" THEN p.transaction_amount ELSE p.user_id)
    ELSE default

FieldValues(f) ==
    CASE f = "distinct_cards_2_weeks" -> {2, 3}
      [] f = "txns_by_user_last_1h_hour" -> {19, 20}
      [] f = "num_cbk_card_bin_7d_percent" -> {4, 5}
      [] f = "avg_txns_by_user_1h" -> {10}
      [] f = "avg_transaction_amount_7d" -> {50}
      [] f = "user_cbk_count_lifetime_percent" -> 0 .. MaxUserCbk

\* A column of a one-row result: not selected, NULL, or a number.
ColumnChoices(f) ==
    {NoColumn, Column(PyNone)} \cup {Column(Num(v)) : v \in FieldValues(f)}

\* The results the feature-store query can return: no row, or one row.
Frames ==
    {EmptyFrame} \cup
    { [distinct_cards_2_weeks |-> a, txns_by_user_last_1h_hour |-> b,
       num_cbk_card_bin_7d_percent |-> c, avg_txns_by_user_1h |-> d,
       avg_transaction_amount_7d |-> e, user_cbk_count_lifetime_percent |-> g] :
         a \in ColumnChoices("distinct_cards_2_weeks"),
         b \in ColumnChoices("txns_by_user_last_1h_hour"),
         c \in ColumnChoices("num_cbk_card_bin_7d_percent"),
         d \in ColumnChoices("avg_txns_by_user_1h"),
         e \in ColumnChoices("avg_transaction_amount_7d"),
         g \in ColumnChoices("user_cbk_count_lifetime_percent") }

NoFeatures == [f \in Fields |-> PyNone]

-----------------------------------------------------------------------------
(* is_valid_transaction *)

NoQuery == [file |-> "", text |-> "", value |-> PyNone]

\* Line 31, f"{sql_query} and user_id = {user_id}": the text of the query
\* file, the literal, and str(user_id) formatted into the text.
FormatQuery(uid) ==
    [file |-> "sql/feature_store.sql", text |-> " and user_id = ", value |-> uid]

\* The locals of a call that has not started.
NoLocals ==
    [pc |-> "idle", payload |-> NonDictPayload, transaction_amount |-> PyNone,
     user_id |-> PyNone, conn |-> "none", sql_query |-> NoQuery,
     user_profile |-> EmptyFrame, fetched |-> FALSE, feat |-> NoFeatures,
     result |-> NoResult, outcome |-> "none"]

NoRequest == [is_json |-> FALSE, json |-> NonDictPayload, transaction_id |-> 0]
NoResponse == [status |-> 0, body |-> "none", transaction_id |-> 0,
               recommendation |-> "", reason |-> <<"", "">>, error |-> <<"", "">>]
NoRunner == [pc |-> "idle", user_profile |-> EmptyFrame, feat |-> NoFeatures,
             result |-> [kind |-> "unset", verdict |-> FALSE, reason |-> ""]]

Init ==
    /\ pc = "idle"
    /\ payload = NonDictPayload
    /\ transaction_amount = PyNone
    /\ user_id = PyNone
    /\ conn = "none"
    /\ sql_query = NoQuery
    /\ user_profile = EmptyFrame
    /\ fetched = FALSE
    /\ feat = NoFeatures
    /\ result = NoResult
    /\ outcome = "none"
    /\ open_conns = 0
    /\ other = NoLocals
    /\ epc = "idle"
    /\ request = NoRequest
    /\ response = NoResponse
    /\ runner = NoRunner

\* A variant of the handler that catches database errors only.
Catches_db_only(e) == e \in {"OperationalError", "psycopg2.Error"}

\* Line 63, `except Exception`: every exception the body raises is an
\* Exception.
Catches(e) == TRUE

\* Lines 63-65: an exception raised at any line of the try body.
Fail(e) ==
    /\ pc' = "done"
    /\ IF Catches(e)
       THEN /\ result' = [verdict |-> FALSE, reason |-> ProcessingErrorReason(e)]
            /\ outcome' = "returned"
       ELSE /\ result' = result
            /\ outcome' = "raised"

\* is_valid_transaction(p) is entered: fresh locals.
Enter(p) ==
    /\ pc' = "extract"
    /\ payload' = p
    /\ transaction_amount' = PyNone
    /\ user_id' = PyNone
    /\ conn' = "none"
    /\ sql_query' = NoQuery
    /\ user_profile' = EmptyFrame
    /\ fetched' = FALSE
    /\ feat' = NoFeatures
    /\ result' = NoResult
    /\ outcome' = "none"

\* A caller other than the endpoint invokes is_valid_transaction(p).
Call(p) ==
    /\ pc = "idle"
    /\ epc = "idle"
    /\ Enter(p)
    /\ UNCHANGED <<open_conns, other, endpoint, runner>>

\* Lines 21-24.
Extract ==
    /\ pc = "extract"
    /\ payload.kind = "dict"
    /\ transaction_amount' = PayloadGet(payload, "transaction_amount", Num(0))
    /\ user_id' = PayloadGet(payload, "user_id", Num(0))
    /\ pc' = "connect"
    /\ UNCHANGED <<payload, conn, sql_query, user_profile, fetched, feat, result, outcome>>
    /\ UNCHANGED <<open_conns, other, endpoint, runner>>

ExtractFail ==
    /\ pc = "extract"
    /\ payload.kind # "dict"
    /\ Fail("AttributeError")
    /\ UNCHANGED <<payload, transaction_amount, user_id, conn, sql_query,
                   user_profile, fetched, feat>>
    /\ UNCHANGED <<open_conns, other, endpoint, runner>>

\* Line 27, PostgresConnectionManager(): __init__ calls connect, which opens
\* a new connection while the server accepts one.
Connect(limit) ==
    /\ pc = "connect"
    /\ open_conns < limit
    /\ conn' = "open"
    /\ open_conns' = open_conns + 1
    /\ pc' = "open"
    /\ UNCHANGED <<payload, transaction_amount, user_id, sql_query, user_profile,
                   fetched, feat, result, outcome>>
    /\ UNCHANGED <<other, endpoint, runner>>

\* Line 27: psycopg2.connect raises.
ConnectFail ==
    /\ pc = "connect"
    /\ Fail("OperationalError")
    /\ UNCHANGED <<payload, transaction_amount, user_id, conn, sql_query,
                   user_profile, fetched, feat>>
    /\ UNCHANGED <<open_conns, other, endpoint, runner>>

\* Lines 28-31.
ReadQuery ==
    /\ pc = "open"
    /\ sql_query' = FormatQuery(user_id)
    /\ pc' = "query"
    /\ UNCHANGED <<payload, transaction_amount, user_id, conn, user_profile, fetched,
                   feat, result, outcome>>
    /\ UNCHANGED <<open_conns, other, endpoint, runner>>

ReadQueryFail ==
    /\ pc = "open"
    /\ Fail("FileNotFoundError")
    /\ UNCHANGED <<payload, transaction_amount, user_id, conn, sql_query,
                   user_profile, fetched, feat>>
    /\ UNCHANGED <<open_conns, other, endpoint, runner>>

\* connection.py line 255, cursor.execute(query, params): what the database
\* receives.  Line 32 of app.py passes no params, so params is None.
Executed == [query |-> sql_query, params |-> PyNone]

\* Line 32: query_to_dataframe returns the frame of the fetched records.
query_to_dataframe(df) ==
    /\ pc = "query"
    /\ user_profile' = df
    /\ fetched' = TRUE
    /\ pc' = "defaults"
    /\ UNCHANGED <<payload, transaction_amount, user_id, conn, sql_query, feat,
                   result, outcome>>
    /\ UNCHANGED <<open_conns, other, endpoint, runner>>

\* Line 32: query_to_dataframe prints and re-raises the psycopg2.Error.
query_to_dataframe_fail ==
    /\ pc = "query"
    /\ Fail("psycopg2.Error")
    /\ UNCHANGED <<payload, transaction_amount, user_id, conn, sql_query,
                   user_profile, fetched, feat>>
    /\ UNCHANGED <<open_conns, other, endpoint, runner>>

\* A variant of lines 41-46 that reads the profile another evaluation has
\* fetched, when there is one, as a cache shared between requests would.
Defaults_shared ==
    /\ pc = "defaults"
    /\ feat' = Features(IF other.fetched THEN other.user_profile ELSE user_profile)
    /\ pc' = "rules"
    /\ UNCHANGED <<payload, transaction_amount, user_id, conn, sql_query,
                   user_profile, fetched, result, outcome>>
    /\ UNCHANGED <<open_conns, other, endpoint, runner>>

\* Lines 41-46.
Defaults ==
    /\ pc = "defaults"
    /\ feat' = Features(user_profile)
    /\ pc' = "rules"
    /\ UNCHANGED <<payload, transaction_amount, user_id, conn, sql_query,
                   user_profile, fetched, result, outcome>>
    /\ UNCHANGED <<open_conns, other, endpoint, runner>>

\* Lines 48-61.
Rules ==
    /\ pc = "rules"
    /\ LET r == RuleChain(transaction_amount, feat)
       IN  IF r.raised
           THEN Fail(r.exc)
           ELSE /\ result' = [verdict |-> r.verdict, reason |-> r.reason]
                /\ outcome' = "returned"
                /\ pc' = "done"
    /\ UNCHANGED <<payload, transaction_amount, user_id, conn, sql_query,
                   user_profile, fetched, feat>>
    /\ UNCHANGED <<open_conns, other, endpoint, runner>>

\* The frame of the call is gone: its locals are discarded.  Nothing in
\* lines 13-65 calls conn.close(), so the connection stays open on the
\* server; only the name conn is lost.
Discard ==
    /\ pc' = "idle"
    /\ payload' = NonDictPayload
    /\ transaction_amount' = PyNone
    /\ user_id' = PyNone
    /\ conn' = "none"
    /\ sql_query' = NoQuery
    /\ user_profile' = EmptyFrame
    /\ fetched' = FALSE
    /\ feat' = NoFeatures
    /\ result' = NoResult
    /\ outcome' = "none"

\* The caller (other than the endpoint) has the pair.
Finish ==
    /\ pc = "done"
    /\ epc = "idle"
    /\ Discard
    /\ UNCHANGED <<open_conns, other, endpoint, runner>>

\* The connections no evaluation holds any more.
Unreachable ==
    open_conns - (IF conn = "open" THEN 1 ELSE 0) - (IF other.conn = "open" THEN 1 ELSE 0)

\* The interpreter finalizes an unreachable connection object, which closes
\* it.  When it does so is up to the garbage collector.
Collect ==
    /\ Unreachable > 0
    /\ open_conns' = open_conns - 1
    /\ UNCHANGED <<locals, other, endpoint, runner>>

Next ==
    \/ \E p \in Payloads : Call(p)
    \/ Extract
    \/ ExtractFail
    \/ Connect(MaxConns)
    \/ ConnectFail
    \/ ReadQuery
    \/ ReadQueryFail
    \/ \E df \in Frames : query_to_dataframe(df)
    \/ query_to_dataframe_fail
    \/ Defaults
    \/ Rules
    \/ Finish
    \/ Collect

Spec == Init /\ [][Next]_vars

-----------------------------------------------------------------------------
(* evaluate_transaction *)

\* request.get_json() gives a dict, or a JSON array or string (both answer
\* `in`, neither has get), or null, a number or a boolean (which answer
\* neither); for a body that does not parse it raises.  keys holds what
\* `field in payload` is true of.
ListPayload(members) ==
    [kind |-> "list", keys |-> members, transaction_amount |-> PyNone, user_id |-> PyNone]
NullPayload ==
    [kind |-> "null", keys |-> {}, transaction_amount |-> PyNone, user_id |-> PyNone]
MalformedBody ==
    [kind |-> "malformed", keys |-> {}, transaction_amount |-> PyNone, user_id |-> PyNone]

\* A user_id that is a str, such as "0 or 1=1".
UserIdText == [k |-> "str", v |-> 1]

TransactionIds == {1, 2}

\* The requests the endpoint is driven with.  transaction_id is the value
\* under that key of a dict body.
Requests ==
    {[is_json |-> FALSE, json |-> MalformedBody, transaction_id |-> 0]}
    \cup {[is_json |-> TRUE, json |-> j, transaction_id |-> 0] :
            j \in {MalformedBody, NullPayload, ListPayload({}), ListPayload(RequiredFields)}}
    \cup {[is_json |-> TRUE, json |-> DictPayload(RequiredFields \ {k}, PyNone, Num(7)),
           transaction_id |-> IF k = "transaction_id" THEN 0 ELSE 1] :
            k \in {"transaction_id", "transaction_amount", "device_id"}}
    \cup {[is_json |-> TRUE, json |-> DictPayload(RequiredFields, a, u), transaction_id |-> t] :
            a \in {Num(100), Num(20000), PyNone}, u \in {Num(7), UserIdText},
            t \in TransactionIds}

\* Line 88: the required fields `field not in payload` holds of.
MissingFields(j) == RequiredFields \ j.keys

\* Lines 80 and 90-92: a validation error.
ValidationError(text, detail) ==
    [status |-> 400, body |-> "error", transaction_id |-> 0, recommendation |-> "",
     reason |-> <<"", "">>, error |-> <<text, detail>>]

\* A variant of the handler that leaves a verdict in the failure response.
InternalError_with_verdict(e) ==
    [status |-> 500, body |-> "error", transaction_id |-> 0, recommendation |-> "deny",
     reason |-> <<"", "">>, error |-> <<"Internal server error", e>>]

\* Lines 113-117.
InternalError(e) ==
    [status |-> 500, body |-> "error", transaction_id |-> 0, recommendation |-> "",
     reason |-> <<"", "">>, error |-> <<"Internal server error", e>>]

\* A variant that recommends approval whatever the verdict.
Recommendation_always_approve(is_approved) == "approve"

\* Line 103.
Recommendation(is_approved) == IF is_approved THEN "approve" ELSE "deny"

\* Lines 101-106.
VerdictResponse(tid, is_approved, reason) ==
    [status |-> 200, body |-> "verdict", transaction_id |-> tid,
     recommendation |-> Recommendation(is_approved), reason |-> reason,
     error |-> <<"", "">>]

\* Flask dispatches a request to evaluate_transaction.
Receive(r) ==
    /\ epc = "idle"
    /\ pc = "idle"
    /\ request' = r
    /\ response' = NoResponse
    /\ epc' = "is_json"
    /\ UNCHANGED <<locals, open_conns, other, runner>>

\* Lines 79-80.
RejectNotJson ==
    /\ epc = "is_json"
    /\ ~request.is_json
    /\ response' = ValidationError("Request must be JSON", "")
    /\ epc' = "responded"
    /\ UNCHANGED <<request, locals, open_conns, other, runner>>

\* Line 82, the body does not parse: get_json raises, line 113 catches.
GetJsonFail ==
    /\ epc = "is_json"
    /\ request.is_json
    /\ request.json.kind = "malformed"
    /\ response' = InternalError("BadRequest")
    /\ epc' = "responded"
    /\ UNCHANGED <<request, locals, open_conns, other, runner>>

\* Line 82.
GetJson ==
    /\ epc = "is_json"
    /\ request.is_json
    /\ request.json.kind # "malformed"
    /\ epc' = "fields"
    /\ UNCHANGED <<request, response, locals, open_conns, other, runner>>

\* Line 88 on null, a number or a boolean: `in` raises TypeError.
CheckFieldsFail ==
    /\ epc = "fields"
    /\ request.json.kind \notin {"dict", "list"}
    /\ response' = InternalError("TypeError")
    /\ epc' = "responded"
    /\ UNCHANGED <<request, locals, open_conns, other, runner>>

\* Lines 88-92.
RejectMissing ==
    /\ epc = "fields"
    /\ request.json.kind \in {"dict", "list"}
    /\ MissingFields(request.json) # {}
    /\ response' = ValidationError("Missing required fields: ", "")
    /\ epc' = "responded"
    /\ UNCHANGED <<request, locals, open_conns, other, runner>>

\* Line 95 on a payload without get (an array or string naming every field).
GetIdFail ==
    /\ epc = "fields"
    /\ request.json.kind = "list"
    /\ MissingFields(request.json) = {}
    /\ response' = InternalError("AttributeError")
    /\ epc' = "responded"
    /\ UNCHANGED <<request, locals, open_conns, other, runner>>

\* Lines 95-98: is_valid_transaction(payload) is called.
Invoke ==
    /\ epc = "fields"
    /\ request.json.kind = "dict"
    /\ MissingFields(request.json) = {}
    /\ pc = "idle"
    /\ Enter(request.json)
    /\ epc' = "called"
    /\ UNCHANGED <<request, response, open_conns, other, runner>>

\* Lines 98-111; an exception out of the call would reach line 113.
Respond ==
    /\ epc = "called"
    /\ pc = "done"
    /\ response' = IF outcome = "returned"
                   THEN VerdictResponse(request.transaction_id, result.verdict, result.reason)
                   ELSE InternalError("Exception")
    /\ epc' = "responded"
    /\ UNCHANGED <<request, locals, open_conns, other, runner>>

\* The response is sent; the request and every local of it are gone.
Deliver ==
    /\ epc = "responded"
    /\ epc' = "idle"
    /\ request' = NoRequest
    /\ response' = NoResponse
    /\ Discard
    /\ UNCHANGED <<open_conns, other, runner>>

\* The feature-store results the endpoint is driven with.
EndpointFrames ==
    {EmptyFrame,
     [EmptyFrame EXCEPT !["user_cbk_count_lifetime_percent"] = Column(Num(1))],
     [EmptyFrame EXCEPT !["num_cbk_card_bin_7d_percent"] = Column(Num(5))],
     [EmptyFrame EXCEPT !["distinct_cards_2_weeks"] = Column(PyNone)]}

EndpointNext ==
    \/ \E r \in Requests : Receive(r)
    \/ RejectNotJson
    \/ GetJsonFail
    \/ GetJson
    \/ CheckFieldsFail
    \/ RejectMissing
    \/ GetIdFail
    \/ Invoke
    \/ Extract
    \/ Connect(MaxConns)
    \/ ConnectFail
    \/ ReadQuery
    \/ ReadQueryFail
    \/ \E df \in EndpointFrames : query_to_dataframe(df)
    \/ query_to_dataframe_fail
    \/ Defaults
    \/ Rules
    \/ Respond
    \/ Deliver
    \/ Collect

EndpointSpec == Init /\ [][EndpointNext]_vars

-----------------------------------------------------------------------------
(* Two evaluations in flight *)

\* Connections the server accepts while two requests are served.
MaxConnsConcurrent == 2

\* The locals of the evaluation that is running.
Running ==
    [pc |-> pc, payload |-> payload, transaction_amount |-> transaction_amount,
     user_id |-> user_id, conn |-> conn, sql_query |-> sql_query,
     user_profile |-> user_profile, fetched |-> fetched, feat |-> feat,
     result |-> result, outcome |-> outcome]

\* app.run serves each request in a thread of its own; the interpreter
\* suspends the running thread between any two steps and resumes the other
\* one.  Each thread has its own frame of is_valid_transaction: the locals
\* of the suspended call are parked in `other`.
Switch ==
    /\ pc' = other.pc
    /\ payload' = other.payload
    /\ transaction_amount' = other.transaction_amount
    /\ user_id' = other.user_id
    /\ conn' = other.conn
    /\ sql_query' = other.sql_query
    /\ user_profile' = other.user_profile
    /\ fetched' = other.fetched
    /\ feat' = other.feat
    /\ result' = other.result
    /\ outcome' = other.outcome
    /\ other' = Running
    /\ UNCHANGED <<open_conns, endpoint, runner>>

\* The payloads of the two requests: two users, amounts on both sides of the
\* value rule and one that is not a number.
ConcurrentPayloads ==
    {DictPayload(RequiredFields, a, u) :
        a \in {Num(100), Num(20000), PyNone}, u \in {Num(7), Num(8)}}

ConcurrentNext ==
    \/ \E p \in ConcurrentPayloads : Call(p)
    \/ Switch
    \/ Extract
    \/ Connect(MaxConnsConcurrent)
    \/ ConnectFail
    \/ ReadQuery
    \/ ReadQueryFail
    \/ \E df \in EndpointFrames : query_to_dataframe(df)
    \/ query_to_dataframe_fail
    \/ Defaults
    \/ Rules
    \/ Finish
    \/ Collect

ConcurrentSpec == Init /\ [][ConcurrentNext]_vars

-----------------------------------------------------------------------------
(* run_feature_store.main *)

\* The five profile fields main reads (lines 41-45).
RunnerFields == Fields \ {"avg_transaction_amount_7d"}

\* Lines 39-45: to_dict(orient='list') gives a list per column;
\* `get(col)[0] if get(col) else 0` is the first cell when the column is
\* there and not empty (None included, if the cell is NULL) and 0 otherwise.
RunnerScalar(df, f) ==
    IF df[f].present /\ Len(df[f].cells) > 0 THEN df[f].cells[1] ELSE Num(0)

RunnerFeatures(df) ==
    [f \in Fields |-> IF f \in RunnerFields THEN RunnerScalar(df, f) ELSE PyNone]

\* Lines 47-58: the chain of main; the transaction-value rule is commented
\* out.
RunnerChain(f) ==
    LET cards == f["distinct_cards_2_weeks"]
        txns == f["txns_by_user_last_1h_hour"]
        bin == f["num_cbk_card_bin_7d_percent"]
        avgtx == f["avg_txns_by_user_1h"]
        cbk == f["user_cbk_count_lifetime_percent"]
    IN  IF ~Comparable(cbk, Num(0)) THEN Raised("TypeError")
        ELSE IF cbk.v > 0 THEN Returned(FALSE, DeniedCbkHistory)
        ELSE IF ~CanDouble(avgtx) \/ ~Comparable(txns, Double(avgtx)) THEN Raised("TypeError")
        ELSE IF txns.v >= Double(avgtx).v THEN Returned(FALSE, DeniedVolume)
        ELSE IF ~Comparable(cards, Num(CardsLimit)) THEN Raised("TypeError")
        ELSE IF cards.v >= CardsLimit THEN Returned(FALSE, DeniedCards)
        ELSE IF ~Comparable(bin, Num(HalfRatio)) THEN Raised("TypeError")
        ELSE IF bin.v >= HalfRatio THEN Returned(FALSE, DeniedCardBin)
        ELSE Returned(TRUE, Approved)

\* Lines 62-64: main prints the error and returns None.
RunnerNone == [kind |-> "none", verdict |-> FALSE, reason |-> ""]

RunnerUnchanged == UNCHANGED <<locals, open_conns, other, endpoint>>

\* The script is started.
RunnerStart ==
    /\ runner.pc = "idle"
    /\ runner' = [NoRunner EXCEPT !.pc = "connect"]
    /\ RunnerUnchanged

\* Line 25.
RunnerConnect ==
    /\ runner.pc = "connect"
    /\ runner' = [runner EXCEPT !.pc = "open"]
    /\ RunnerUnchanged

\* Lines 29-32.
RunnerReadQuery ==
    /\ runner.pc = "open"
    /\ runner' = [runner EXCEPT !.pc = "query"]
    /\ RunnerUnchanged

\* Line 25, 29 or 34 raises: lines 62-64.
RunnerFail ==
    /\ runner.pc \in {"connect", "open", "query"}
    /\ runner' = [runner EXCEPT !.pc = "done", !.result = RunnerNone]
    /\ RunnerUnchanged

\* Line 34.
RunnerQuery(df) ==
    /\ runner.pc = "query"
    /\ runner' = [runner EXCEPT !.pc = "defaults", !.user_profile = df]
    /\ RunnerUnchanged

\* Lines 39-45.
RunnerDefaults ==
    /\ runner.pc = "defaults"
    /\ runner' = [runner EXCEPT !.pc = "rules", !.feat = RunnerFeatures(runner.user_profile)]
    /\ RunnerUnchanged

\* Lines 47-64.
RunnerRules ==
    /\ runner.pc = "rules"
    /\ LET r == RunnerChain(runner.feat)
       IN  runner' = [runner EXCEPT
                        !.pc = "done",
                        !.result = IF r.raised
                                   THEN RunnerNone
                                   ELSE [kind |-> "tuple", verdict |-> r.verdict,
                                         reason |-> r.reason[1]]]
    /\ RunnerUnchanged

\* main has returned; the process ends.
RunnerExit ==
    /\ runner.pc = "done"
    /\ runner' = NoRunner
    /\ RunnerUnchanged

RunnerNext ==
    \/ RunnerStart
    \/ RunnerConnect
    \/ RunnerReadQuery
    \/ RunnerFail
    \/ \E df \in Frames : RunnerQuery(df)
    \/ RunnerDefaults
    \/ RunnerRules
    \/ RunnerExit

RunnerSpec == Init /\ [][RunnerNext]_vars

\* Lines 41-65 as a function of the amount and the fetched frame: the pair
\* the call returns once query_to_dataframe has delivered df.
Evaluate(amount, df) ==
    LET r == RuleChain(amount, Features(df))
    IN  IF r.raised
        THEN [verdict |-> FALSE, reason |-> ProcessingErrorReason(r.exc)]
        ELSE [verdict |-> r.verdict, reason |-> r.reason]

-----------------------------------------------------------------------------
(* Vocabulary of the properties *)

\* is_valid_transaction has handed its pair to the caller.
Done == pc = "done" /\ outcome = "returned"

\* ... and the profile fetch had succeeded.
Evaluated == Done /\ fetched

Verdict(v, text) == [verdict |-> v, reason |-> <<text, "">>]

IsProcessingError(r) == r.verdict = FALSE /\ r.reason[1] = "Processing error: "

\* The five denial conditions, on the six locals the chain reads.
Cond1 == feat["user_cbk_count_lifetime_percent"].v > 0
Cond2 == feat["txns_by_user_last_1h_hour"].v >= 2 * feat["avg_txns_by_user_1h"].v
Cond3 == /\ IsNum(transaction_amount)
         /\ transaction_amount.v >= 2 * feat["avg_transaction_amount_7d"].v
Cond4 == feat["distinct_cards_2_weeks"].v >= 3
Cond5 == feat["num_cbk_card_bin_7d_percent"].v >= 5

\* C1: the verdict is that of the lowest-numbered rule whose condition
\* holds: rule 1, else rule 2, else rule 3, else rule 4, else rule 5, for
\* every numeric amount (rules 1 and 2 for every amount at all).
C1_FirstMatchingRuleWins ==
    Evaluated =>
        /\ Cond1 => result = Verdict(FALSE, "Transaction denied due to high chargeback history")
        /\ (~Cond1 /\ Cond2) =>
               result = Verdict(FALSE, "Transaction denied due to high transaction volume")
        /\ (~Cond1 /\ ~Cond2 /\ Cond3) =>
               result = Verdict(FALSE, "Transaction denied due to high transaction value")
        /\ (IsNum(transaction_amount) /\ ~Cond1 /\ ~Cond2 /\ ~Cond3 /\ Cond4) =>
               result = Verdict(FALSE, "Transaction denied due to multiple cards used recently")
        /\ (IsNum(transaction_amount) /\ ~Cond1 /\ ~Cond2 /\ ~Cond3 /\ ~Cond4 /\ Cond5) =>
               result = Verdict(FALSE, "Transaction denied due to high chargeback rate for card type")

\* Rule 1 and rule 3 (and rules 2, 4 and 5) hold at once and rule 1 decided.
C1_Witness ==
    /\ Evaluated
    /\ Cond1 /\ Cond2 /\ Cond3 /\ Cond4 /\ Cond5
    /\ result = Verdict(FALSE, "Transaction denied due to high chargeback history")

\* The fetched row carries a non-null user_cbk_count_lifetime_percent > 0.
FetchedCbkPositive ==
    LET col == user_profile["user_cbk_count_lifetime_percent"]
    IN  col.present /\ col.cells[1].k = "num" /\ col.cells[1].v > 0

\* C2: a fetched user_cbk_count_lifetime_percent > 0 denies with the
\* chargeback-history reason whatever the other five fields and the amount.
C2_ChargebackHistoryDenies ==
    (Evaluated /\ FetchedCbkPositive) =>
        result = Verdict(FALSE, "Transaction denied due to high chargeback history")

\* Chargeback history decided although the amount is None and no other
\* column was fetched.
C2_Witness ==
    /\ Evaluated /\ FetchedCbkPositive
    /\ transaction_amount = PyNone
    /\ \A f \in Fields \ {"user_cbk_count_lifetime_percent"} : ~user_profile[f].present
    /\ result = Verdict(FALSE, "Transaction denied due to high chargeback history")

\* C3: when the fetch did not deliver a frame (connection, query file or
\* query failed) the call returns a processing-error denial; an approval
\* is returned only after a successful fetch.
C3_FetchFailureDenies ==
    /\ (pc = "done" /\ ~fetched) => (outcome = "returned" /\ IsProcessingError(result))
    /\ (pc = "done" /\ result.verdict) => fetched

\* The query raised and the call returned the processing-error denial.
C3_Witness ==
    /\ Done /\ ~fetched
    /\ result = [verdict |-> FALSE, reason |-> <<"Processing error: ", "psycopg2.Error">>]

\* C4: approve is returned only after a successful fetch with none of the
\* five denial conditions holding, and whenever none holds on a numeric
\* amount the call approves.
C4_ApproveOnlyWhenNoRuleMatches ==
    /\ (Done /\ result.verdict) =>
           /\ fetched
           /\ IsNum(transaction_amount)
           /\ feat["user_cbk_count_lifetime_percent"].v <= 0
           /\ feat["txns_by_user_last_1h_hour"].v < 2 * feat["avg_txns_by_user_1h"].v
           /\ transaction_amount.v < 2 * feat["avg_transaction_amount_7d"].v
           /\ feat["distinct_cards_2_weeks"].v < 3
           /\ feat["num_cbk_card_bin_7d_percent"].v < 5
           /\ result.reason = <<"Transaction approved", "">>
    /\ (Evaluated /\ IsNum(transaction_amount)
          /\ ~Cond1 /\ ~Cond2 /\ ~Cond3 /\ ~Cond4 /\ ~Cond5) =>
           result = Verdict(TRUE, "Transaction approved")

\* An approval of a fetched row with all six columns present.
C4_Witness ==
    /\ Evaluated
    /\ \A f \in Fields : user_profile[f].present /\ user_profile[f].cells[1].k = "num"
    /\ result = Verdict(TRUE, "Transaction approved")

\* The explicit profile of the specification, as a fetched one-row frame.
ExplicitDefaultFrame ==
    [distinct_cards_2_weeks |-> Column(Num(1)),
     txns_by_user_last_1h_hour |-> Column(Num(20)),
     num_cbk_card_bin_7d_percent |-> Column(Num(0)),
     avg_txns_by_user_1h |-> Column(Num(20)),
     avg_transaction_amount_7d |-> Column(Num(10000)),
     user_cbk_count_lifetime_percent |-> Column(Num(0))]

\* C5: an evaluation whose fetch returned no row returns the pair that the
\* same amount gets against the explicit profile (1, 20, 0, 20, 10000, 0).
C5_AbsentProfileIsDefaultProfile ==
    (Evaluated /\ user_profile = EmptyFrame) =>
        result = Evaluate(transaction_amount, ExplicitDefaultFrame)

\* An evaluation of a numeric amount against an empty result has returned.
C5_Witness ==
    /\ Evaluated /\ user_profile = EmptyFrame
    /\ transaction_amount = Num(20000)
    /\ result = Verdict(FALSE, "Transaction denied due to high transaction value")

\* Every field of the fetched result is missing or NULL.
AllDefaulted ==
    \A f \in Fields : ~user_profile[f].present \/ user_profile[f].cells[1] = PyNone

\* C6 as stated: the all-default profile approves, for every numeric amount.
C6_DefaultProfileApproves ==
    (Evaluated /\ AllDefaulted /\ IsNum(transaction_amount)) =>
        result = Verdict(TRUE, "Transaction approved")

\* C6, amended: the all-default profile approves exactly the numeric
\* amounts below 20000 and denies the others for high transaction value.
C6_DefaultProfileApprovesBelowThreshold ==
    (Evaluated /\ AllDefaulted /\ IsNum(transaction_amount)) =>
        IF transaction_amount.v < 20000
        THEN result = Verdict(TRUE, "Transaction approved")
        ELSE result = Verdict(FALSE, "Transaction denied due to high transaction value")

\* All six columns fetched as NULL, amount 19999: approved.
C6_Witness ==
    /\ Evaluated
    /\ \A f \in Fields : user_profile[f] = Column(PyNone)
    /\ transaction_amount = Num(19999)
    /\ result = Verdict(TRUE, "Transaction approved")

\* The defaults as the specification lists them.
ListedDefault(f) ==
    CASE f = "distinct_cards_2_weeks" -> 1
      [] f = "txns_by_user_last_1h_hour" -> 20
      [] f = "num_cbk_card_bin_7d_percent" -> 0
      [] f = "avg_txns_by_user_1h" -> 20
      [] f = "avg_transaction_amount_7d" -> 10000
      [] f = "user_cbk_count_lifetime_percent" -> 0

\* C7: once lines 41-46 have run, each local is the fetched value when the
\* column is present and non-null and the field's listed default
\* otherwise, independently per field, and so is always a number.
C7_DefaultsPerField ==
    (fetched /\ pc \in {"rules", "done"}) =>
        \A f \in Fields :
            /\ feat[f] = IF user_profile[f].present /\ user_profile[f].cells[1].k = "num"
                         THEN user_profile[f].cells[1]
                         ELSE Num(ListedDefault(f))
            /\ IsNum(feat[f])

\* A mixed record about to enter the chain: two columns missing, two NULL,
\* two carrying values.
C7_Witness ==
    /\ pc = "rules"
    /\ ~user_profile["distinct_cards_2_weeks"].present
    /\ ~user_profile["avg_transaction_amount_7d"].present
    /\ user_profile["txns_by_user_last_1h_hour"] = Column(PyNone)
    /\ user_profile["user_cbk_count_lifetime_percent"] = Column(PyNone)
    /\ user_profile["num_cbk_card_bin_7d_percent"] = Column(Num(4))
    /\ user_profile["avg_txns_by_user_1h"] = Column(Num(10))
    /\ feat["distinct_cards_2_weeks"] = Num(1)
    /\ feat["txns_by_user_last_1h_hour"] = Num(20)
    /\ feat["num_cbk_card_bin_7d_percent"] = Num(4)

\* C8: the inclusive boundaries deny when the rules above them were
\* evaluated false: txns = 2*avg, distinct cards = 3, card-bin rate = 0.5.
C8_InclusiveBoundariesDeny ==
    Evaluated =>
        /\ (~Cond1 /\ feat["txns_by_user_last_1h_hour"].v = 2 * feat["avg_txns_by_user_1h"].v) =>
               result = Verdict(FALSE, "Transaction denied due to high transaction volume")
        /\ (IsNum(transaction_amount) /\ ~Cond1 /\ ~Cond2 /\ ~Cond3
              /\ feat["distinct_cards_2_weeks"].v = 3) =>
               result = Verdict(FALSE, "Transaction denied due to multiple cards used recently")
        /\ (IsNum(transaction_amount) /\ ~Cond1 /\ ~Cond2 /\ ~Cond3 /\ ~Cond4
              /\ feat["num_cbk_card_bin_7d_percent"].v = 5) =>
               result = Verdict(FALSE, "Transaction denied due to high chargeback rate for card type")

\* The card-bin rate is exactly 0.5, no rule above matched, and rule 5 denied.
C8_Witness ==
    /\ Evaluated /\ IsNum(transaction_amount)
    /\ ~Cond1 /\ ~Cond2 /\ ~Cond3 /\ ~Cond4
    /\ feat["num_cbk_card_bin_7d_percent"].v = 5
    /\ result = Verdict(FALSE, "Transaction denied due to high chargeback rate for card type")

\* The same for rule 2: txns is exactly 2*avg and the volume rule denied.
C8_WitnessVolume ==
    /\ Evaluated /\ ~Cond1
    /\ feat["txns_by_user_last_1h_hour"].v = 2 * feat["avg_txns_by_user_1h"].v
    /\ result = Verdict(FALSE, "Transaction denied due to high transaction volume")

\* The same for rule 4: exactly 3 distinct cards and the cards rule denied.
C8_WitnessCards ==
    /\ Evaluated /\ IsNum(transaction_amount) /\ ~Cond1 /\ ~Cond2 /\ ~Cond3
    /\ feat["distinct_cards_2_weeks"].v = 3
    /\ result = Verdict(FALSE, "Transaction denied due to multiple cards used recently")

\* A step of a call in progress.
Step ==
    \/ Extract \/ ExtractFail \/ Connect(MaxConns) \/ ConnectFail \/ ReadQuery \/ ReadQueryFail
    \/ (\E df \in Frames : query_to_dataframe(df)) \/ query_to_dataframe_fail
    \/ Defaults \/ Rules

ReasonTexts ==
    {"Transaction approved",
     "Transaction denied due to high chargeback history",
     "Transaction denied due to high transaction volume",
     "Transaction denied due to high transaction value",
     "Transaction denied due to multiple cards used recently",
     "Transaction denied due to high chargeback rate for card type",
     "Processing error: "}

\* C9: no exception leaves is_valid_transaction; a call in progress can
\* always take its next step, a finished call has returned a pair
\* (boolean, reason), and every failure path has returned False.
C9_NoExceptionEscapes ==
    /\ outcome # "raised"
    /\ (pc \notin {"idle", "done"}) => ENABLED Step
    /\ (pc = "done") =>
           /\ outcome = "returned"
           /\ result.verdict \in BOOLEAN
           /\ result.reason[1] \in ReasonTexts
           /\ (~fetched \/ result.reason[1] = "Processing error: ") => result.verdict = FALSE

\* A partial record fetched, then the comparison of line 52 raised
\* TypeError, and the call still returned a denial.
C9_Witness ==
    /\ Done /\ fetched
    /\ user_profile # EmptyFrame
    /\ \E f \in Fields : ~user_profile[f].present
    /\ result = [verdict |-> FALSE, reason |-> <<"Processing error: ", "TypeError">>]

\* The payload carries a transaction_amount that is not a number.
BadAmount ==
    /\ payload.kind = "dict"
    /\ "transaction_amount" \in payload.keys
    /\ ~IsNum(payload.transaction_amount)

\* C10 as stated: a non-numeric transaction_amount yields the
\* processing-error denial for every profile.
C10_BadAmountIsProcessingError ==
    (Done /\ BadAmount) => IsProcessingError(result)

\* C10, amended: a non-numeric transaction_amount is always denied; the
\* reason is that of rule 1 or rule 2 when one of them matches (line 52 is
\* then never reached) and the processing-error variant otherwise.
C10_BadAmountIsDenied ==
    (Done /\ BadAmount) =>
        /\ result.verdict = FALSE
        /\ IF fetched /\ Cond1
           THEN result = Verdict(FALSE, "Transaction denied due to high chargeback history")
           ELSE IF fetched /\ Cond2
           THEN result = Verdict(FALSE, "Transaction denied due to high transaction volume")
           ELSE IsProcessingError(result)

\* A str amount reached line 52 and the call returned the processing error.
C10_Witness ==
    /\ Done /\ BadAmount /\ fetched
    /\ transaction_amount = PyStr
    /\ ~Cond1 /\ ~Cond2
    /\ result = [verdict |-> FALSE, reason |-> <<"Processing error: ", "TypeError">>]

\* C17: rules 1 and 3 have no tolerance.  With rules 1 and 2 false, an
\* amount of exactly 2*avg_transaction_amount_7d denies for transaction
\* value and a smaller amount never does; a chargeback rate of exactly 0
\* never denies for chargeback history and any rate above 0 does.
C17_ExactBoundaries ==
    Evaluated =>
        /\ (IsNum(transaction_amount) /\ ~Cond1 /\ ~Cond2
              /\ transaction_amount.v = 2 * feat["avg_transaction_amount_7d"].v) =>
               result = Verdict(FALSE, "Transaction denied due to high transaction value")
        /\ (IsNum(transaction_amount)
              /\ transaction_amount.v < 2 * feat["avg_transaction_amount_7d"].v) =>
               result.reason # <<"Transaction denied due to high transaction value", "">>
        /\ (feat["user_cbk_count_lifetime_percent"].v = 0) =>
               result.reason # <<"Transaction denied due to high chargeback history", "">>
        /\ (feat["user_cbk_count_lifetime_percent"].v > 0) =>
               result = Verdict(FALSE, "Transaction denied due to high chargeback history")

\* A fetched chargeback rate of exactly 0 and an amount of exactly twice
\* the fetched 7-day average: rule 1 passed it on and rule 3 denied.
C17_Witness ==
    /\ Evaluated
    /\ user_profile["user_cbk_count_lifetime_percent"] = Column(Num(0))
    /\ user_profile["avg_transaction_amount_7d"] = Column(Num(50))
    /\ transaction_amount = Num(100)
    /\ result = Verdict(FALSE, "Transaction denied due to high transaction value")

\* The amount one below the default threshold of 20000 is not denied by rule 3.
C17_WitnessBelow ==
    /\ Evaluated
    /\ transaction_amount = Num(19999)
    /\ feat["avg_transaction_amount_7d"] = Num(10000)
    /\ result = Verdict(TRUE, "Transaction approved")

\* C19: a connection opened by an evaluation is closed when the evaluation
\* returns its verdict, and no completed evaluation leaves one open.
C19_ConnectionsClosed ==
    /\ (pc = "done") => conn # "open"
    /\ (pc = "idle" /\ other.pc = "idle") => open_conns = 0

\* The request's payload lacks at least one required field.
PayloadLacksField ==
    /\ request.is_json
    /\ request.json.kind # "malformed"
    /\ MissingFields(request.json) # {}

\* C11: a request whose payload lacks a required field is rejected with a
\* validation error before evaluation starts: is_valid_transaction is not
\* entered, no connection is opened, nothing is fetched, and the response
\* is the 400 error without recommendation or reason.
C11_MissingFieldIsValidationError ==
    /\ (epc # "idle" /\ PayloadLacksField) =>
           (pc = "idle" /\ conn = "none" /\ ~fetched)
    /\ (epc = "responded" /\ PayloadLacksField) =>
           /\ response.status = 400
           /\ response.body = "error"
           /\ response.recommendation = ""
           /\ response.reason = <<"", "">>

\* The part of C11 that does not depend on the kind of the rejection: such
\* a request is answered without evaluation and without a verdict.
C11_MissingFieldNeverEvaluated ==
    /\ (epc # "idle" /\ PayloadLacksField) =>
           (pc = "idle" /\ conn = "none" /\ ~fetched)
    /\ (epc = "responded" /\ PayloadLacksField) =>
           /\ response.status \in {400, 500}
           /\ response.body = "error"
           /\ response.recommendation = ""
           /\ response.reason = <<"", "">>

\* A step of a request being handled.
HandlerStep ==
    \/ RejectNotJson \/ GetJsonFail \/ GetJson \/ CheckFieldsFail \/ RejectMissing
    \/ GetIdFail \/ Invoke \/ Step \/ Respond

\* C12: a handled request ends in one response of one kind: the 400
\* validation error, the 200 verdict with reason, or the 500 internal
\* failure, the last without any part of a verdict; until then there is no
\* response, and a request being handled can always take its next step.
C12_OneStructuredResponse ==
    /\ (epc = "responded") =>
           \/ /\ response.status = 400 /\ response.body = "error"
              /\ response.recommendation = "" /\ response.reason = <<"", "">>
              /\ response.error[1] \in {"Request must be JSON", "Missing required fields: "}
           \/ /\ response.status = 200 /\ response.body = "verdict"
              /\ response.recommendation \in {"approve", "deny"}
              /\ response.reason[1] \in ReasonTexts
              /\ response.error = <<"", "">>
           \/ /\ response.status = 500 /\ response.body = "error"
              /\ response.recommendation = "" /\ response.reason = <<"", "">>
              /\ response.transaction_id = 0
              /\ response.error[1] = "Internal server error"
    /\ (epc # "responded") => response = NoResponse
    /\ (epc \notin {"idle", "responded"}) => ENABLED HandlerStep

\* An internal error during handling (line 95 on an array payload) ended
\* in the 500 response.
C12_Witness ==
    /\ epc = "responded"
    /\ request.json = ListPayload(RequiredFields)
    /\ response = [status |-> 500, body |-> "error", transaction_id |-> 0,
                   recommendation |-> "", reason |-> <<"", "">>,
                   error |-> <<"Internal server error", "AttributeError">>]

\* C13: a verdict response echoes the request's transaction_id, recommends
\* approve or deny, approve exactly with the reason "Transaction approved",
\* and every deny carries one of the five denial reasons or the
\* processing-error variant.
C13_VerdictResponseWellFormed ==
    (epc = "responded" /\ response.status = 200) =>
        /\ response.transaction_id = request.transaction_id
        /\ response.recommendation \in {"approve", "deny"}
        /\ (response.recommendation = "approve") <=>
               (response.reason = <<"Transaction approved", "">>)
        /\ (response.recommendation = "deny") =>
               \/ response.reason \in
                    {<<"Transaction denied due to high chargeback history", "">>,
                     <<"Transaction denied due to high transaction volume", "">>,
                     <<"Transaction denied due to high transaction value", "">>,
                     <<"Transaction denied due to multiple cards used recently", "">>,
                     <<"Transaction denied due to high chargeback rate for card type", "">>}
               \/ (response.reason[1] = "Processing error: " /\ response.reason[2] # "")

\* A deny for the card-type chargeback rate, answered for transaction 2.
C13_Witness ==
    /\ epc = "responded" /\ response.status = 200
    /\ request.transaction_id = 2
    /\ response.transaction_id = 2
    /\ response.recommendation = "deny"
    /\ response.reason = <<"Transaction denied due to high chargeback rate for card type", "">>

\* An approve is answered too.
C13_WitnessApprove ==
    /\ epc = "responded" /\ response.status = 200
    /\ response.recommendation = "approve"
    /\ response.reason = <<"Transaction approved", "">>

\* C16: the feature-store read is parameterized: the text executed is the
\* same for every user_id, with a placeholder where the value goes, and
\* the user_id travels as the bound parameter.
C16_QueryIsParameterized ==
    (sql_query # NoQuery) =>
        /\ Executed.query = [file |-> "sql/feature_store.sql",
                             text |-> " and user_id = %s", value |-> PyNone]
        /\ Executed.params = user_id

\* The amounts of transactions: numbers.
NumericAmounts == {Num(0), Num(99), Num(100), Num(19999), Num(20000)}

\* The pair main returns, in the shape is_valid_transaction returns it.
RunnerPair == [verdict |-> runner.result.verdict, reason |-> <<runner.result.reason, "">>]

\* C18: for every fetched result and every transaction amount below
\* 2*avg_transaction_amount_7d, main returns the pair is_valid_transaction
\* returns for that result and amount.
C18_RunnerAgreesOutsideRule3 ==
    (runner.pc = "done" /\ runner.feat # NoFeatures) =>
        \A a \in NumericAmounts :
            (a.v < 2 * Features(runner.user_profile)["avg_transaction_amount_7d"].v) =>
                /\ runner.result.kind = "tuple"
                /\ RunnerPair = Evaluate(a, runner.user_profile)

\* Where the two copies do agree: on rows whose five columns read by main
\* are all present and non-null.
C18_RunnerAgreesOnCompleteRows ==
    (runner.pc = "done" /\ runner.feat # NoFeatures
       /\ \A f \in RunnerFields :
             runner.user_profile[f].present /\ runner.user_profile[f].cells[1].k = "num") =>
        \A a \in NumericAmounts :
            (a.v < 2 * Features(runner.user_profile)["avg_transaction_amount_7d"].v) =>
                /\ runner.result.kind = "tuple"
                /\ RunnerPair = Evaluate(a, runner.user_profile)

\* A finished evaluation with locals l has the pair it gets when evaluated
\* alone on its own amount and its own fetched profile.
AsAlone(l) ==
    l.pc = "done" =>
        /\ l.outcome = "returned"
        /\ IF l.fetched
           THEN l.result = Evaluate(l.transaction_amount, l.user_profile)
           ELSE l.result.verdict = FALSE /\ l.result.reason[1] = ProcessingError

\* The connections the two evaluations hold.
Held == (IF conn = "open" THEN 1 ELSE 0) + (IF other.conn = "open" THEN 1 ELSE 0)

\* C14: two evaluations of the same transaction amount against the same
\* fetched profile, whichever finished first and whatever ran in between,
\* have returned identical (verdict, reason) pairs.
C14_SameInputsSamePair ==
    (/\ pc = "done" /\ other.pc = "done"
     /\ fetched /\ other.fetched
     /\ transaction_amount = other.transaction_amount
     /\ user_profile = other.user_profile) =>
        result = other.result

\* Two finished evaluations of one payload on one non-empty profile.
C14_Witness ==
    /\ pc = "done" /\ other.pc = "done"
    /\ fetched /\ other.fetched
    /\ payload = other.payload
    /\ user_profile = other.user_profile
    /\ user_profile # EmptyFrame
    /\ result = other.result
    /\ result.verdict = FALSE

\* C15: under every interleaving of two evaluations, each finished
\* evaluation has the pair it gets alone on its own profile, and the open
\* connections are at least as many as the evaluations holding one (no
\* connection serves both).
C15_IndependentEvaluations ==
    /\ AsAlone(Running)
    /\ AsAlone(other)
    /\ open_conns >= Held

\* Both evaluations finished, each on its own connection, with different
\* users, different profiles and different pairs.
C15_Witness ==
    /\ pc = "done" /\ other.pc = "done"
    /\ fetched /\ other.fetched
    /\ user_id # other.user_id
    /\ user_profile # other.user_profile
    /\ result.verdict /\ ~other.result.verdict
    /\ conn = "open" /\ other.conn = "open"
    /\ open_conns = 2

=============================================================================
